---- MODULE Spec2Model ----
(***************************************************************************)
(* Collision-outcome resolver of MarsDiskSimulation                        *)
(* (rebound/MarsRing/mars_shearing_sheet/problem.c).                       *)
(*                                                                         *)
(* Numbers.  The C code computes in double.  Here a mass is an exact        *)
(* rational <<n, d>> (d > 0, lowest terms), so that "equal to              *)
(* floating-point tolerance" is exact equality for masses; a position or   *)
(* velocity is rounded to a multiple of 1/Scale whenever it is stored, as  *)
(* a double rounds to its precision.                                       *)
(*                                                                         *)
(* Bodies.  A body carries hash, m, r3, x, vx, last_collision.  The code   *)
(* treats the three components of position and of velocity alike; the      *)
(* model keeps the component along the relative-velocity axis (unit_vi).   *)
(* r3 is the cube of the radius r: get_radii is a cube root, and           *)
(* r = get_radii(m, rho) is kept exactly as r^3 = m/rho in units where     *)
(* 4*pi/3 = 1.                                                             *)
(*                                                                         *)
(* Pairwise dynamics.  Vi, V_esc, b, Mlr, v_crit and Mlr_dag come out of   *)
(* sqrt/pow formulas over the two bodies (problem.c:466-525, 312-333);     *)
(* the resolver only compares them and hands Mlr/Mslr on.  Each is drawn   *)
(* from a bounded grid that covers every ordering the formulas can        *)
(* produce, at the place where the code first reads it.                    *)
(***************************************************************************)
EXTENDS Integers, Sequences, FiniteSets, TLC

VARIABLES
    particles,      \* r->particles[0..N-1], here 1..N
    t,              \* r->t
    tot_no_frags,   \* process-wide fragment counter
    min_frag_mass,  \* global tunable
    report,         \* lines of collision_report.txt
    status,         \* "running" | "exited" (exit(0)) | "aborted" (assert)
    pending,        \* disposition code the host has still to apply
    last,           \* history: what the last resolve call did
    allocated,      \* collision_params blocks allocated and not released
    smol            \* the SmolData of the coagulation module, and smol_init's loop index

vars == <<particles, t, tot_no_frags, min_frag_mass, report, status, pending, last,
          allocated, smol>>

---------------------------------------------------------------------------
(* Bounds of the model *)

MaxMass == 2       \* initial masses are 1..MaxMass
MaxT == 1          \* time steps 0..MaxT
MaxCalls == 2      \* resolve calls that get past the guards, per run
MaxSpeed == 3      \* speed grid 1..MaxSpeed
MaxB == 2          \* impact parameters 1/2, .., MaxB/2 target radii

---------------------------------------------------------------------------
(* Exact rationals standing for double *)

Abs(n) == IF n < 0 THEN -n ELSE n

RECURSIVE GCD(_, _)
GCD(a, b) == IF b = 0 THEN a ELSE GCD(b, a % b)

Norm(n, d) ==
    LET s == IF d < 0 THEN -1 ELSE 1
        g == GCD(Abs(n), Abs(d))
    IN  <<(s * n) \div g, (s * d) \div g>>

R(n) == <<n, 1>>
\* Common factors are divided out before multiplying, to keep the
\* intermediate integers small.
RAdd(a, b) ==
    LET g == GCD(a[2], b[2])
    IN  Norm(a[1] * (b[2] \div g) + b[1] * (a[2] \div g), (a[2] \div g) * b[2])
RNeg(a) == <<0 - a[1], a[2]>>
RSub(a, b) == RAdd(a, RNeg(b))
RMul(a, b) ==
    LET g == GCD(Abs(a[1]), b[2])
        h == GCD(Abs(b[1]), a[2])
    IN  IF a[1] = 0 \/ b[1] = 0 THEN <<0, 1>>
        ELSE <<(a[1] \div g) * (b[1] \div h), (a[2] \div h) * (b[2] \div g)>>
RDiv(a, b) == RMul(a, IF b[1] < 0 THEN <<0 - b[2], 0 - b[1]>> ELSE <<b[2], b[1]>>)
RLt(a, b) == RSub(a, b)[1] < 0
RLe(a, b) == RSub(a, b)[1] <= 0
RFloor(a) == a[1] \div a[2]
RAbs(a) == <<Abs(a[1]), a[2]>>

MIN(a, b) == IF RLt(b, a) THEN b ELSE a
MAX(a, b) == IF RLt(b, a) THEN a ELSE b

\* Precision of a stored position or velocity
Scale == 2 ^ 6

\* The nearest multiple of 1/Scale
Round(a) == Norm((2 * a[1] * Scale + a[2]) \div (2 * a[2]), Scale)

RECURSIVE RSum(_)
RSum(s) == IF s = <<>> THEN R(0) ELSE RAdd(Head(s), RSum(Tail(s)))

---------------------------------------------------------------------------
(* Vector / geometry utilities *)

NoTime == 0 - 1                    \* a last_collision that equals no simulation time

Hash(kind, n) == <<kind, n>>       \* reb_hash of the name "<kind><n>", e.g. FRAG7

\* get_radii(m, rho) = pow(3m/(4 pi rho), 1/3); kept as its cube, m/rho
get_radii(m, rho) == RDiv(m, rho)

\* m/(4./3*M_PI*pow(r,3)): the body's own density
Density(p) == RDiv(p.m, p.r3)

\* The radius itself (a cube root) is needed only for R_tot in the separation
\* distance; it is rounded up to a whole length unit.
RECURSIVE CbrtUp(_, _)
CbrtUp(q, k) == IF RLe(q, R(k * k * k)) THEN k ELSE CbrtUp(q, k + 1)

Radius(p) == CbrtUp(p.r3, 1)

\* reb_particle_com_of_pair: mass-weighted mean of position and velocity
com_of_pair(p1, p2) ==
    LET M == RAdd(p1.m, p2.m)
    IN  [m  |-> M,
         x  |-> Round(RDiv(RAdd(RMul(p1.m, p1.x), RMul(p2.m, p2.x)), M)),
         vx |-> Round(RDiv(RAdd(RMul(p1.m, p1.vx), RMul(p2.m, p2.vx)), M))]

\* cos(2*pi*num/den) for |num/den| <= 1/4, by Bhaskara's rational formula
\* (exact at 0, 60 and 90 degrees, error below 0.002 elsewhere)
CosQuarter(num, den) ==
    Norm(den * den - 16 * num * num, den * den + 4 * num * num)

\* cos(theta_inc*j) with theta_inc = 2*pi/n, for j in 1..n
Cos(j, n) ==
    IF 4 * j <= n THEN CosQuarter(j, n)
    ELSE IF 4 * j <= 3 * n
         THEN RSub(R(0), CosQuarter(2 * j - n, 2 * n))
         ELSE CosQuarter(j - n, n)

\* boxsize.x of the 2 x 2 root boxes of side 50 (main)
BoxLx == 2 * 50

\* x -= Lx * floor((x + 0.5*Lx)/Lx)
WrapIntoBox(x) ==
    LET L == R(BoxLx)
    IN  RSub(x, RMul(L, R(RFloor(RDiv(RAdd(x, RDiv(L, R(2))), L)))))

\* reb_simulation_particle_by_hash: index of the body with that hash, 0 for NULL
particle_by_hash(P, h) ==
    IF \E k \in 1..Len(P) : P[k].hash = h
    THEN CHOOSE k \in 1..Len(P) :
            /\ P[k].hash = h
            /\ \A q \in 1..Len(P) : P[q].hash = h => k <= q
    ELSE 0

---------------------------------------------------------------------------
(* Merge operator *)

\* Faulty variant: the merged body is not stamped with the time
merge_NoStamp(P, params, tnow) ==
    LET pi == P[params.target]
        pj == P[params.projectile]
        M == RAdd(pi.m, pj.m)
    IN  [P EXCEPT ![params.target] =
            [pi EXCEPT
                !.vx = Round(RDiv(RAdd(RMul(pi.vx, pi.m), RMul(pj.vx, pj.m)), M)),
                !.x  = Round(RDiv(RAdd(RMul(pi.x, pi.m), RMul(pj.x, pj.m)), M)),
                !.m  = M,
                !.r3 = get_radii(M, Density(pi))]]

\* Faulty variant: the mass is updated before the averages are taken
merge_MassFirst(P, params, tnow) ==
    LET pi == P[params.target]
        pj == P[params.projectile]
        M == RAdd(pi.m, pj.m)
    IN  [P EXCEPT ![params.target] =
            [pi EXCEPT
                !.vx = Round(RDiv(RAdd(RMul(pi.vx, M), RMul(pj.vx, pj.m)), M)),
                !.x  = Round(RDiv(RAdd(RMul(pi.x, M), RMul(pj.x, pj.m)), M)),
                !.m  = M,
                !.r3 = get_radii(M, Density(pi)),
                !.last_collision = tnow]]

merge(P, params, tnow) ==
    LET pi == P[params.target]
        pj == P[params.projectile]
        M == RAdd(pi.m, pj.m)
        targ_rho == Density(pi)
        merged == [pi EXCEPT
            !.vx = Round(RDiv(RAdd(RMul(pi.vx, pi.m), RMul(pj.vx, pj.m)), M)),
            !.x  = Round(RDiv(RAdd(RMul(pi.x, pi.m), RMul(pj.x, pj.m)), M)),
            !.m  = M,
            !.r3 = get_radii(M, targ_rho),
            !.last_collision = tnow]
    IN  [P EXCEPT ![params.target] = merged]

---------------------------------------------------------------------------
(* Fragment synthesizer *)

\* assert(no_frags > 0 && no_frags < 1000000)
FragCeiling == 1000000

\* sqrt(1.1*V_esc^2 - 2*G*initial_mass*(1/rtot - 1/separation_distance)) with
\* V_esc^2 = 2*G*M_tot/R_tot and separation_distance = 4*R_tot is
\* V_esc*sqrt(0.35); sqrt(0.35) = 0.59.. is taken as 3/5
fragment_velocity(V_esc) == RDiv(RMul(R(3), V_esc), R(5))

\* Faulty variant: a fragment count of zero is let through
FragmentChecksPass_NoLowerBound(remaining_mass, mfm) ==
    /\ RLt(R(0), mfm)
    /\ RLt(R(0), remaining_mass)
    /\ RFloor(RDiv(remaining_mass, mfm)) < FragCeiling

\* The sanity checks that precede every mutation (problem.c:105-112)
FragmentChecksPass(remaining_mass, mfm) ==
    /\ RLt(R(0), mfm)
    /\ RLt(R(0), remaining_mass)
    /\ RFloor(RDiv(remaining_mass, mfm)) > 0
    /\ RFloor(RDiv(remaining_mass, mfm)) < FragCeiling

\* The second-largest remnant, placed at theta = 0 (problem.c:180-211)
SecondLargest(com, params, rho, tot, tnow) ==
    LET xs == Round(RAdd(com.x, RMul(params.separation_distance, params.unit_vix)))
        vs == Round(RAdd(com.vx, RMul(fragment_velocity(params.V_esc), params.unit_vix)))
    IN  [body |-> [hash |-> Hash("FRAG", tot + 1), m |-> params.Mslr,
                   r3 |-> get_radii(params.Mslr, rho),
                   x |-> WrapIntoBox(xs), vx |-> vs, last_collision |-> tnow],
         mx |-> RMul(params.Mslr, xs),
         mv |-> RMul(params.Mslr, vs)]

\* The j-th equal-mass fragment, named FRAG<i> (problem.c:214-245)
Fragment(i, j, new_bodies, frag_mass, com, params, rho, tnow) ==
    LET dir == RMul(Cos(j, new_bodies), params.unit_vix)
        xf == Round(RAdd(com.x, RMul(params.separation_distance, dir)))
        vf == Round(RAdd(com.vx, RMul(fragment_velocity(params.V_esc), dir)))
    IN  [body |-> [hash |-> Hash("FRAG", i), m |-> frag_mass,
                   r3 |-> get_radii(frag_mass, rho),
                   x |-> WrapIntoBox(xf), vx |-> vf, last_collision |-> tnow],
         mx |-> RMul(frag_mass, xf),
         mv |-> RMul(frag_mass, vf)]

\* The momentum-correction pass (problem.c:248-271): the offsets are shared
\* out to the target and to every FRAG<i> of this call found by its hash.
\* Faulty variant: the correction is applied to every body of the store
MomentumCorrection_EveryBody(P, targetIdx, first, lastId, xoff, voff, initial_mass, moved) ==
    [k \in 1..Len(P) |->
        [P[k] EXCEPT !.x  = Round(RAdd(P[k].x, RMul(xoff, RDiv(P[k].m, initial_mass)))),
                     !.vx = Round(RAdd(P[k].vx, RMul(voff, RDiv(P[k].m, initial_mass))))]]

\* The target is written through the pointer taken at problem.c:85; when
\* reb_simulation_add has moved the array (moved), that pointer is stale and
\* the write does not reach the store.
MomentumCorrection(P, targetIdx, first, lastId, xoff, voff, initial_mass, moved) ==
    LET found == {particle_by_hash(P, Hash("FRAG", i)) : i \in first..lastId} \ {0}
        shift(p) ==
            LET mass_fraction == RDiv(p.m, initial_mass)
            IN  [p EXCEPT !.x  = Round(RAdd(p.x, RMul(xoff, mass_fraction))),
                          !.vx = Round(RAdd(p.vx, RMul(voff, mass_fraction)))]
        P1 == IF moved THEN P ELSE [P EXCEPT ![targetIdx] = shift(P[targetIdx])]
    IN  [k \in 1..Len(P1) |-> IF k \in found THEN shift(P1[k]) ELSE P1[k]]

\* Faulty variant: the second-largest remnant's mass is not taken off
RemainingMass_IgnoresMslr(P, params) ==
    RSub(RAdd(P[params.target].m, P[params.projectile].m), params.Mlr)

\* initial_mass - Mlr, less Mslr when a second-largest remnant is made
\* (problem.c:90-101)
RemainingMass(P, params) ==
    LET initial_mass == RAdd(P[params.target].m, P[params.projectile].m)
    IN  IF RLt(R(0), params.Mslr)
        THEN RSub(RSub(initial_mass, params.Mlr), params.Mslr)
        ELSE RSub(initial_mass, params.Mlr)

\* Faulty variant: the target takes Mlr in every case
NewTarget_AlwaysMlr(target, Mlr, no_frags, frag_mass0, com, rho, tnow) ==
    [target EXCEPT !.last_collision = tnow, !.m = Mlr, !.r3 = get_radii(Mlr, rho),
                   !.x = com.x, !.vx = com.vx]

\* The target takes Mlr, or the single fragment's mass when that is not
\* smaller, and the centre of mass of the pair (problem.c:124-139)
NewTarget(target, Mlr, no_frags, frag_mass0, com, rho, tnow) ==
    LET m1 == IF no_frags = 1 /\ RLe(Mlr, frag_mass0) THEN frag_mass0 ELSE Mlr
    IN  [target EXCEPT !.last_collision = tnow, !.m = m1, !.r3 = get_radii(m1, rho),
                       !.x = com.x, !.vx = com.vx]

\* Faulty variant: no body is made for the second-largest remnant
NewBodies_NoSecondLargest(params, tot, no_frags, big_frags, frag_mass, com, rho, tnow) ==
    [j \in 1..no_frags |->
          Fragment(tot + big_frags + j, j, no_frags + big_frags, frag_mass, com,
                   params, rho, tnow)]

\* Faulty variant: the equal-mass fragments are numbered from tot_no_frags + 1
\* even when the second-largest remnant has taken that number
NewBodies_RestartIds(params, tot, no_frags, big_frags, frag_mass, com, rho, tnow) ==
    (IF big_frags = 1 THEN <<SecondLargest(com, params, rho, tot, tnow)>> ELSE <<>>)
    \o [j \in 1..no_frags |->
          Fragment(tot + j, j, no_frags + big_frags, frag_mass, com, params, rho, tnow)]

\* The bodies appended, in creation order, each with its share of mxsum and
\* mvsum (problem.c:180-245)
NewBodies(params, tot, no_frags, big_frags, frag_mass, com, rho, tnow) ==
    (IF big_frags = 1 THEN <<SecondLargest(com, params, rho, tot, tnow)>> ELSE <<>>)
    \o [j \in 1..no_frags |->
          Fragment(tot + big_frags + j, j, no_frags + big_frags, frag_mass, com,
                   params, rho, tnow)]

\* Faulty variant: the counter is advanced by the equal-mass fragments only
Place_CountsEqualFragmentsOnly(P, tot, params, target1, added, com, initial_mass, moved) ==
    LET mxsum == RAdd(RMul(target1.m, target1.x),
                      RSum([k \in 1..Len(added) |-> added[k].mx]))
        mvsum == RAdd(RMul(target1.m, target1.vx),
                      RSum([k \in 1..Len(added) |-> added[k].mv]))
    IN  [aborted |-> FALSE,
         particles |->
            MomentumCorrection(
                [P EXCEPT ![params.target] = target1]
                    \o [k \in 1..Len(added) |-> added[k].body],
                params.target, tot + 1, tot + Len(added),
                RSub(com.x, RDiv(mxsum, initial_mass)),
                RSub(com.vx, RDiv(mvsum, initial_mass)),
                initial_mass, moved),
         tot_no_frags |-> tot + Len(added) - (IF RLt(R(0), params.Mslr) THEN 1 ELSE 0),
         params |-> [params EXCEPT !.no_frags = Len(added)]]

\* Appending, advancing the counter and correcting (problem.c:141-147, 246-271)
Place(P, tot, params, target1, added, com, initial_mass, moved) ==
    LET mxsum == RAdd(RMul(target1.m, target1.x),
                      RSum([k \in 1..Len(added) |-> added[k].mx]))
        mvsum == RAdd(RMul(target1.m, target1.vx),
                      RSum([k \in 1..Len(added) |-> added[k].mv]))
    IN  [aborted |-> FALSE,
         particles |->
            MomentumCorrection(
                [P EXCEPT ![params.target] = target1]
                    \o [k \in 1..Len(added) |-> added[k].body],
                params.target, tot + 1, tot + Len(added),
                RSub(com.x, RDiv(mxsum, initial_mass)),
                RSub(com.vx, RDiv(mvsum, initial_mass)),
                initial_mass, moved),
         tot_no_frags |-> tot + Len(added),
         params |-> [params EXCEPT !.no_frags = Len(added)]]

\* Faulty variant: the single fragment keeps its share when the target takes it
Synthesize_FragmentKeepsShare(P, tot, params, tnow, no_frags, big_frags, frag_mass0, com, rho, moved) ==
    Place(P, tot, params,
          NewTarget(P[params.target], params.Mlr, no_frags, frag_mass0, com, rho, tnow),
          NewBodies(params, tot, no_frags, big_frags, frag_mass0, com, rho, tnow),
          com, com.m, moved)

\* The part of add_fragments after its sanity checks
Synthesize(P, tot, params, tnow, no_frags, big_frags, frag_mass0, com, rho, moved) ==
    Place(P, tot, params,
          NewTarget(P[params.target], params.Mlr, no_frags, frag_mass0, com, rho, tnow),
          NewBodies(params, tot, no_frags, big_frags,
                    IF no_frags = 1 /\ RLe(params.Mlr, frag_mass0)
                    THEN params.Mlr ELSE frag_mass0,
                    com, rho, tnow),
          com, com.m, moved)

add_fragments(P, tot, params, tnow, mfm, moved) ==
    IF ~FragmentChecksPass(RemainingMass(P, params), mfm)
    THEN [aborted |-> TRUE, particles |-> P, tot_no_frags |-> tot, params |-> params]
    ELSE Synthesize(P, tot, params, tnow,
                    RFloor(RDiv(RemainingMass(P, params), mfm)),
                    IF RLt(R(0), params.Mslr) THEN 1 ELSE 0,
                    RDiv(RemainingMass(P, params),
                         R(RFloor(RDiv(RemainingMass(P, params), mfm)))),
                    com_of_pair(P[params.target], P[params.projectile]),
                    Density(P[params.target]), moved)

---------------------------------------------------------------------------
(* External hard-sphere restitution resolver (REBOUND).  hs = "separating": *)
(* the pair is not approaching and nothing changes; hs = "bounce": the      *)
(* velocities are exchanged along the axis and both bodies are stamped.     *)

reb_collision_resolve_hardsphere(P, c, tnow, hs) ==
    IF hs = "separating" THEN P
    ELSE LET a == P[c.p1]
             b == P[c.p2]
             M == RAdd(a.m, b.m)
             va == Round(RDiv(RAdd(RMul(RSub(a.m, b.m), a.vx), RMul(RMul(R(2), b.m), b.vx)), M))
             vb == Round(RDiv(RAdd(RMul(RSub(b.m, a.m), b.vx), RMul(RMul(R(2), a.m), a.vx)), M))
         IN  [P EXCEPT ![c.p1] = [a EXCEPT !.vx = va, !.last_collision = tnow],
                       ![c.p2] = [b EXCEPT !.vx = vb, !.last_collision = tnow]]

---------------------------------------------------------------------------
(* What one classified resolution did: the store and counter it leaves, the *)
(* context, the disposition code, the operators it invoked in order and the *)
(* outcome it printed.                                                      *)

Outcome(P, tot, params, swap, ops, kind, aborted) ==
    [particles |-> P, tot_no_frags |-> tot, params |-> params, swap |-> swap,
     ops |-> ops, kind |-> kind, aborted |-> aborted]

\* A call of add_fragments as terminal action of an outcome
Fragmented(P, tot, params, tnow, mfm, swap, kind, moved) ==
    LET f == add_fragments(P, tot, params, tnow, mfm, moved)
    IN  Outcome(f.particles, f.tot_no_frags, f.params, swap, <<"add_fragments">>,
                kind, f.aborted)

\* Faulty variant: merge is invoked twice
Merged_Twice(P, tot, params, tnow, swap, kind) ==
    Outcome(merge(merge(P, params, tnow), params, tnow), tot, params, swap,
            <<"merge", "merge">>, kind, FALSE)

\* A call of merge as terminal action of an outcome
Merged(P, tot, params, tnow, swap, kind) ==
    Outcome(merge(P, params, tnow), tot, params, swap, <<"merge">>, kind, FALSE)

---------------------------------------------------------------------------
(* Hit-and-run sub-resolver.  v_crit and Mlr_dag are the values of the      *)
(* formulas at problem.c:312-333 and 357-363 (Mlr_dag before its clamp).    *)

\* Faulty variant: the disposition code is left at 2 after a bounce
Bounced_ReturnsTwo(P, tot, c, params, tnow, hs) ==
    Outcome(reb_collision_resolve_hardsphere(P, c, tnow, hs), tot,
            [params EXCEPT !.collision_type = 0], 2, <<"hardsphere">>,
            "ElasticBounce", FALSE)

\* A call of the restitution resolver as terminal action of an outcome; swap
\* is set to 0 (problem.c:345-348, 365-368)
Bounced(P, tot, c, params, tnow, hs) ==
    Outcome(reb_collision_resolve_hardsphere(P, c, tnow, hs), tot,
            [params EXCEPT !.collision_type = 0], 0, <<"hardsphere">>,
            "ElasticBounce", FALSE)

\* Faulty variant: the first-named body is removed on equal masses as well
HitAndRunSwap_OnEqualToo(P, c) == IF RLe(P[c.p1].m, P[c.p2].m) THEN 1 ELSE 2

\* Faulty variant: the comparison is the wrong way round
HitAndRunSwap_Reversed(P, c) == IF RLt(P[c.p2].m, P[c.p1].m) THEN 1 ELSE 2

\* int swap = 2; if (pi->m < pj->m) swap = 1 (problem.c:303-310)
HitAndRunSwap(P, c) == IF RLt(P[c.p1].m, P[c.p2].m) THEN 1 ELSE 2

\* Faulty variant: Mlr_dag is used as computed, without its lower bound
hit_and_run_NoDagClamp(P, tot, c, params0, tnow, mfm, v_crit, Mlr_dag0, hs, moved) ==
    LET target == P[params0.target]
        projectile == P[params0.projectile]
        swap0 == HitAndRunSwap(P, c)
        targ_m == target.m
        imp_m == projectile.m
    IN  IF RLe(params0.Vi, v_crit)
        THEN Merged(P, tot, [params0 EXCEPT !.collision_type = 1], tnow, swap0,
                    "GrazeAndMerge")
        ELSE
        LET params == [params0 EXCEPT !.Mlr = MAX(params0.Mlr, mfm)]
        IN  IF RLt(params.Mlr, targ_m)
            THEN IF RLe(RSub(RAdd(targ_m, imp_m), params.Mlr), mfm)
                 THEN Bounced(P, tot, c, params, tnow, hs)
                 ELSE Fragmented(P, tot, [params EXCEPT !.collision_type = 3], tnow,
                                 mfm, swap0, "GrazingPartialErosion", moved)
            ELSE
            LET projectile_mass_accreted == RSub(params.Mlr, targ_m)
                new_projectile_mass == RSub(projectile.m, projectile_mass_accreted)
                Mlr_dag == Mlr_dag0
            IN  IF RLt(RSub(new_projectile_mass, Mlr_dag), mfm)
                THEN Bounced(P, tot, c, params, tnow, hs)
                ELSE Fragmented(P, tot,
                                [params EXCEPT !.Mslr = Mlr_dag, !.collision_type = 2],
                                tnow, mfm, swap0, "HitAndRun", moved)

\* The hit-and-run sub-resolver (problem.c:298-379); v_crit and Mlr_dag0 are the
\* values its formulas give
hit_and_run(P, tot, c, params0, tnow, mfm, v_crit, Mlr_dag0, hs, moved) ==
    LET target == P[params0.target]
        projectile == P[params0.projectile]
        swap0 == HitAndRunSwap(P, c)
        targ_m == target.m
        imp_m == projectile.m
    IN  IF RLe(params0.Vi, v_crit)
        THEN Merged(P, tot, [params0 EXCEPT !.collision_type = 1], tnow, swap0,
                    "GrazeAndMerge")
        ELSE
        LET params == [params0 EXCEPT !.Mlr = MAX(params0.Mlr, mfm)]
        IN  IF RLt(params.Mlr, targ_m)
            THEN IF RLe(RSub(RAdd(targ_m, imp_m), params.Mlr), mfm)
                 THEN Bounced(P, tot, c, params, tnow, hs)
                 ELSE Fragmented(P, tot, [params EXCEPT !.collision_type = 3], tnow,
                                 mfm, swap0, "GrazingPartialErosion", moved)
            ELSE
            LET projectile_mass_accreted == RSub(params.Mlr, targ_m)
                new_projectile_mass == RSub(projectile.m, projectile_mass_accreted)
                Mlr_dag == MAX(Mlr_dag0, mfm)
            IN  IF RLt(RSub(new_projectile_mass, Mlr_dag), mfm)
                THEN Bounced(P, tot, c, params, tnow, hs)
                ELSE Fragmented(P, tot,
                                [params EXCEPT !.Mslr = Mlr_dag, !.collision_type = 2],
                                tnow, mfm, swap0, "HitAndRun", moved)

---------------------------------------------------------------------------
(* The classifier of reb_collision_resolve_fragment (problem.c:560-597) for *)
(* a non-grazing impact (b < targ_r) faster than the escape velocity.       *)

\* Faulty variant: a super-catastrophic outcome is coded as a partial erosion
NonGrazing_MiscodedSuperCat(P, tot, params, tnow, mfm, swap, moved) ==
    LET targ_m == P[params.target].m
        M_tot == RAdd(targ_m, P[params.projectile].m)
        Mlr == params.Mlr
    IN  IF RLt(RSub(M_tot, params.Mlr), mfm)
        THEN Merged(P, tot, [params EXCEPT !.collision_type = 1], tnow, swap,
                    "EffectiveMerge")
        ELSE IF RLt(params.Mlr, targ_m)
        THEN Fragmented(P, tot,
                        [params EXCEPT !.collision_type = 3, !.Mlr = MAX(Mlr, mfm)],
                        tnow, mfm, swap,
                        IF RLe(params.Mlr, RDiv(targ_m, R(10)))
                        THEN "SuperCatastrophic" ELSE "PartialErosion", moved)
        ELSE Fragmented(P, tot, [params EXCEPT !.collision_type = 2], tnow, mfm,
                        swap, "PartialAccretion", moved)

\* Faulty variant: the largest remnant is handed on as computed
NonGrazing_NoClamp(P, tot, params, tnow, mfm, swap, moved) ==
    LET targ_m == P[params.target].m
        M_tot == RAdd(targ_m, P[params.projectile].m)
    IN  IF RLt(RSub(M_tot, params.Mlr), mfm)
        THEN Merged(P, tot, [params EXCEPT !.collision_type = 1], tnow, swap,
                    "EffectiveMerge")
        ELSE IF RLt(params.Mlr, targ_m)
        THEN IF RLe(params.Mlr, RDiv(targ_m, R(10)))
             THEN Fragmented(P, tot, [params EXCEPT !.collision_type = 4],
                             tnow, mfm, swap, "SuperCatastrophic", moved)
             ELSE Fragmented(P, tot, [params EXCEPT !.collision_type = 3],
                             tnow, mfm, swap, "PartialErosion", moved)
        ELSE Fragmented(P, tot, [params EXCEPT !.collision_type = 2], tnow, mfm,
                        swap, "PartialAccretion", moved)

NonGrazing(P, tot, params, tnow, mfm, swap, moved) ==
    LET targ_m == P[params.target].m
        M_tot == RAdd(targ_m, P[params.projectile].m)
        Mlr == params.Mlr
    IN  IF RLt(RSub(M_tot, params.Mlr), mfm)
        THEN Merged(P, tot, [params EXCEPT !.collision_type = 1], tnow, swap,
                    "EffectiveMerge")
        ELSE IF RLt(params.Mlr, targ_m)
        THEN IF RLe(params.Mlr, RDiv(targ_m, R(10)))
             THEN Fragmented(P, tot,
                             [params EXCEPT !.collision_type = 4, !.Mlr = MAX(Mlr, mfm)],
                             tnow, mfm, swap, "SuperCatastrophic", moved)
             ELSE Fragmented(P, tot,
                             [params EXCEPT !.collision_type = 3, !.Mlr = MAX(Mlr, mfm)],
                             tnow, mfm, swap, "PartialErosion", moved)
        ELSE Fragmented(P, tot, [params EXCEPT !.collision_type = 2], tnow, mfm,
                        swap, "PartialAccretion", moved)

---------------------------------------------------------------------------
(* Event recorder: the line print_collision_array appends *)

\* Faulty variant: the listed bodies are taken from the start of the array
print_collision_array_FromStart(P, params, tnow) ==
    [t |-> tnow,
     collision_type |-> params.collision_type,
     target |-> P[params.target].hash,
     target_m |-> P[params.target].m,
     projectile |-> P[params.projectile].hash,
     frags |-> [k \in 1..params.no_frags |-> <<P[k].hash, P[k].m>>]]

print_collision_array(P, params, tnow) ==
    LET N == Len(P)
    IN  [t |-> tnow,
         collision_type |-> params.collision_type,
         target |-> P[params.target].hash,
         target_m |-> P[params.target].m,
         projectile |-> P[params.projectile].hash,
         frags |-> [k \in 1..params.no_frags |->
                      <<P[N - params.no_frags + k].hash, P[N - params.no_frags + k].m>>]]

---------------------------------------------------------------------------
(* Grids for the values of the pairwise-dynamics formulas *)

\* Mlr = M_tot*(1 - Q/(2 Q*)) or its power-law tail: in (0, M_tot], in steps
\* of 1/2; 0 stands for a largest remnant far below min_frag_mass
MlrGrid(M_tot) ==
    {q \in {Norm(k, 2) : k \in 0..(2 * RFloor(M_tot) + 1)} : RLe(q, M_tot)}

\* Mlr_dag before its clamp: any positive mass
MlrDagGrid == {<<1, 2>>, <<2, 1>>}

\* V_esc, and v_crit = V_esc*(c1*zeta*fac + c2*zeta + c3*fac + c4) > V_esc
VescGrid == 1..(MaxSpeed - 2)
VcritGrid(V_esc) == (V_esc + 1)..(MaxSpeed - 1)

\* Vi: with no relative velocity the focusing term alone gives Vi < V_esc
ViGrid(targ, proj, V_esc) ==
    IF targ.vx = proj.vx THEN 1..V_esc ELSE 1..MaxSpeed

\* b = sqrt(h2/v2imp) is NaN only for 0/0, which needs no relative velocity
NanBGrid(targ, proj) == IF targ.vx = proj.vx THEN BOOLEAN ELSE {FALSE}

HardsphereGrid == {"separating", "bounce"}

\* b = sqrt(h2/v2imp) > 0, in units of the target's radius targ_r.  (b = 0
\* exactly, a pair with no angular momentum, is not drawn.)
ImpactGrid == {Norm(k, 2) : k \in 1..MaxB}

\* Whether reb_simulation_add had to move the particle array
MovedGrid == BOOLEAN

\* create_collision_params and the POPULATE block (problem.c:530-550)
Params(P, i, j, Vi, V_esc, Mlr) ==
    [target |-> i, projectile |-> j,
     Vi |-> R(Vi), V_esc |-> R(V_esc),
     unit_vix |-> IF RLt(P[j].vx, P[i].vx) THEN R(1)
                  ELSE IF RLt(P[i].vx, P[j].vx) THEN R(0 - 1) ELSE R(0),
     separation_distance |-> R(4 * (Radius(P[i]) + Radius(P[j]))),
     Mlr |-> Mlr, Mslr |-> R(0), collision_type |-> 0, no_frags |-> 0]

NoParams == [target |-> 0, projectile |-> 0]

---------------------------------------------------------------------------
(* State machine *)

\* main gives every body a mass, a radius, a position, a velocity and the hash
\* INIT<idx>.  It leaves last_collision unset; the value is taken to differ
\* from every simulation time of the run.
\* Body 1 has density 1 and moves at +1; body 2 has density 1/8 and moves at
\* +1 or -1.
InitBody(k) ==
    {[hash |-> Hash("INIT", k - 1), m |-> R(m), r3 |-> R(d * m),
      x |-> R(k - 1), vx |-> R(v), last_collision |-> NoTime] :
        m \in 1..MaxMass,
        d \in IF k = 1 THEN {1} ELSE {8},
        v \in IF k = 1 THEN {1} ELSE {0 - 1, 1}}

\* min_frag_mass against the body masses: comparable, or (as configured in
\* main) many orders of magnitude below them
TinyMass == <<1, 4 * FragCeiling>>

\* a value of the pairwise dynamics that the call did not come to read
NotDrawn == <<0, 0>>

\* b (in target radii), Mlr as computed, v_crit, and Mlr_dag before its clamp
Drawn(b, Mlr, v_crit, Mlr_dag) ==
    [b |-> b, Mlr |-> Mlr, v_crit |-> v_crit, Mlr_dag |-> Mlr_dag]

NothingDrawn == Drawn(NotDrawn, NotDrawn, NotDrawn, NotDrawn)

\* no resolve call yet
NoCall ==
    [kind |-> "None", passed |-> FALSE, p1 |-> 0, p2 |-> 0, t |-> 0,
     ret |-> 0, ops |-> <<>>, params |-> NoParams, pre |-> <<>>,
     preTot |-> 0, preReport |-> 0, drawn |-> NothingDrawn]

\* the collision program declares no SmolData
NoSmol == [i |-> 0, bins |-> <<>>, pre |-> <<>>]

Init ==
    /\ particles \in {<<a, b>> : a \in InitBody(1), b \in InitBody(2)}
    /\ t = 0
    /\ tot_no_frags = 0
    /\ min_frag_mass \in {R(1), TinyMass}
    /\ report = <<>>
    /\ status = "running"
    /\ pending = 0
    /\ allocated = 0
    /\ last = NoCall
    /\ smol = NoSmol

\* Faulty variant: only the first-named body is looked at
AlreadyResolved_FirstOnly(P, c, tnow) == P[c.p1].last_collision = tnow

\* if (p1.last_collision == r->t || p2.last_collision == r->t) return 0
AlreadyResolved(P, c, tnow) ==
    P[c.p1].last_collision = tnow \/ P[c.p2].last_collision = tnow

\* Faulty variant: the event is taken in either index order
IndexOrderFilter_Off(c) == c.p1 > c.p1

\* int i = c.p1; int j = c.p2; if (i<j) return 0;
IndexOrderFilter(c) == c.p1 < c.p2

Call(kind, passed, c, ret, ops, params, drawn) ==
    [kind |-> kind, passed |-> passed, p1 |-> c.p1, p2 |-> c.p2, t |-> t,
     ret |-> ret, ops |-> ops, params |-> params, pre |-> particles,
     preTot |-> tot_no_frags, preReport |-> Len(report), drawn |-> drawn]

\* return 0 from one of the two guards at problem.c:439 and 442
NoOp(kind, c) ==
    /\ last' = Call(kind, FALSE, c, 0, <<>>, NoParams, NothingDrawn)
    /\ UNCHANGED <<particles, t, tot_no_frags, min_frag_mass, report, status,
                   pending, allocated, smol>>

\* Faulty variant: the call returns 0 to the host instead of ending the run
ExitNanB_Returns(c) ==
    /\ allocated' = allocated + 1
    /\ last' = Call("NanB", TRUE, c, 0, <<>>, NoParams, NothingDrawn)
    /\ UNCHANGED <<particles, t, tot_no_frags, min_frag_mass, report, pending, smol,
                   status>>

\* exit(0) on a NaN impact parameter (problem.c:491-493)
ExitNanB(c) ==
    /\ status' = "exited"
    /\ allocated' = allocated + 1
    /\ last' = Call("NanB", TRUE, c, 0, <<>>, NoParams, NothingDrawn)
    /\ UNCHANGED <<particles, t, tot_no_frags, min_frag_mass, report, pending, smol>>

\* The end of the call: an assert of add_fragments stopped the run, or the
\* event is recorded and the disposition code returned (problem.c:600-601)
Finish(c, out, drawn) ==
    /\ allocated' = allocated + 1
    /\ particles' = out.particles
    /\ tot_no_frags' = out.tot_no_frags
    /\ IF out.aborted
       THEN /\ status' = "aborted"
            /\ last' = Call(out.kind, TRUE, c, 0, out.ops, out.params, drawn)
            /\ UNCHANGED <<report, pending>>
       ELSE /\ report' = Append(report,
                           print_collision_array(out.particles, out.params, t))
            /\ pending' = out.swap
            /\ last' = Call(out.kind, TRUE, c, out.swap, out.ops, out.params, drawn)
            /\ UNCHANGED status
    /\ UNCHANGED <<t, min_frag_mass, smol>>

reb_collision_resolve_fragment(p1, p2) ==
    LET c == [p1 |-> p1, p2 |-> p2]
        P == particles
    IN
    /\ status = "running"
    /\ pending = 0 \/ {p1, p2} = {last.p1, last.p2}
    /\ IF AlreadyResolved(P, c, t)
       THEN NoOp("NoOpStamp", c)
       ELSE IF IndexOrderFilter(c)
       THEN NoOp("NoOpOrder", c)
       ELSE
       LET lighter == RLt(P[p1].m, P[p2].m)
           swap == IF lighter THEN 1 ELSE 2
           i == IF lighter THEN p2 ELSE p1
           j == IF lighter THEN p1 ELSE p2
           targ_m == P[i].m
           M_tot == RAdd(P[j].m, P[i].m)
       IN
       /\ allocated < MaxCalls
       /\ \E nanb \in NanBGrid(P[i], P[j]) :
          IF nanb
          THEN ExitNanB(c)
          ELSE \E V_esc \in VescGrid : \E Vi \in ViGrid(P[i], P[j], V_esc) :
               IF Vi <= V_esc
               THEN Finish(c, Merged(P, tot_no_frags,
                                [Params(P, i, j, Vi, V_esc, M_tot)
                                    EXCEPT !.collision_type = 1],
                                t, swap, "Merge"), NothingDrawn)
               ELSE \E b \in ImpactGrid : \E Mlr \in MlrGrid(M_tot) :
                    \E moved \in MovedGrid :
                    IF RLt(b, R(1))
                    THEN Finish(c, NonGrazing(P, tot_no_frags,
                                     Params(P, i, j, Vi, V_esc, Mlr), t,
                                     min_frag_mass, swap, moved),
                                Drawn(b, Mlr, NotDrawn, NotDrawn))
                    ELSE \E v_crit \in VcritGrid(V_esc) :
                         \E Mlr_dag \in MlrDagGrid : \E hs \in HardsphereGrid :
                            Finish(c, hit_and_run(P, tot_no_frags, c,
                                     Params(P, i, j, Vi, V_esc, Mlr), t,
                                     min_frag_mass, R(v_crit), Mlr_dag, hs, moved),
                                   Drawn(b, Mlr, R(v_crit), Mlr_dag))

Resolve == \E p1, p2 \in 1..Len(particles) : p1 # p2 /\ reb_collision_resolve_fragment(p1, p2)

\* The host applies the disposition code: 1 removes the first-named body, 2 the
\* second-named one.  Until it has done so it may report the same pair once
\* more, in either order (the pending guard of the resolver above).
RemoveAt(P, k) == SubSeq(P, 1, k - 1) \o SubSeq(P, k + 1, Len(P))

HostRemove ==
    /\ status = "running"
    /\ pending \in {1, 2}
    /\ particles' = RemoveAt(particles, IF pending = 1 THEN last.p1 ELSE last.p2)
    /\ pending' = 0
    /\ UNCHANGED <<t, tot_no_frags, min_frag_mass, report, status, last, allocated,
                   smol>>

\* The host's time-step loop
Tick ==
    /\ status = "running"
    /\ pending = 0
    /\ t < MaxT
    /\ t' = t + 1
    /\ UNCHANGED <<particles, tot_no_frags, min_frag_mass, report, status, pending,
                   last, allocated, smol>>

Next == Resolve \/ HostRemove \/ Tick

Spec == Init /\ [][Next]_vars

---------------------------------------------------------------------------
(* The fragment synthesizer on its own: add_fragments applied once to a     *)
(* pair and a context drawn directly, including contexts and minimum        *)
(* fragment masses that the classifier never hands to it.                   *)

MslrGrid == {R(0), <<1, 2>>, R(2)}

MinFragMassGrid == {R(0 - 1), R(0), R(1), TinyMass}

InitFrag ==
    /\ particles \in {<<a, b>> : a \in InitBody(1), b \in InitBody(2)}
    /\ t = 0
    /\ tot_no_frags = 0
    /\ min_frag_mass \in MinFragMassGrid
    /\ report = <<>>
    /\ status = "running"
    /\ pending = 0
    /\ allocated = 0
    /\ last = NoCall
    /\ smol = NoSmol

ApplyAddFragments ==
    /\ status = "running"
    /\ allocated = 0
    /\ \E i, j \in 1..Len(particles) : \E Mslr \in MslrGrid : \E moved \in MovedGrid :
       \E Mlr \in MlrGrid(RAdd(RAdd(particles[i].m, particles[j].m), R(1))) :
          LET f == add_fragments(particles, tot_no_frags,
                       [Params(particles, i, j, MaxSpeed, 1, Mlr) EXCEPT !.Mslr = Mslr],
                       t, min_frag_mass, moved)
          IN  /\ i # j
              /\ particles' = f.particles
              /\ tot_no_frags' = f.tot_no_frags
              /\ status' = IF f.aborted THEN "aborted" ELSE "running"
              /\ last' = Call("add_fragments", TRUE, [p1 |-> i, p2 |-> j], 0,
                              <<"add_fragments">>, f.params, NothingDrawn)
              /\ allocated' = allocated + 1
              /\ UNCHANGED <<t, min_frag_mass, report, pending, smol>>

SpecFrag == InitFrag /\ [][ApplyAddFragments]_vars

---------------------------------------------------------------------------
(* The resolver on a store that holds bodies lighter than min_frag_mass: the
   host sets the masses of its bodies and min_frag_mass independently
   (problem.c:22, 686-687) *)

\* A minimum fragment mass between the masses of the initial bodies
LightMinFragMass == <<3, 2>>

InitLight ==
    /\ particles \in {<<a, b>> : a \in InitBody(1), b \in InitBody(2)}
    /\ t = 0
    /\ tot_no_frags = 0
    /\ min_frag_mass = LightMinFragMass
    /\ report = <<>>
    /\ status = "running"
    /\ pending = 0
    /\ allocated = 0
    /\ last = NoCall
    /\ smol = NoSmol

SpecLight == InitLight /\ [][Next]_vars

---------------------------------------------------------------------------
(* The synthesizer of either copy on a host that may decline a body:
   reb_simulation_add stores nothing when it rejects the particle, and the
   lookup of that body's hash in the correction pass then returns NULL *)

Copies == {"mars_shearing_sheet", "fragmentation"}

\* The positions of the n new bodies that the host stored: all, or all but one
KeepGrid(n) == {1..n} \cup {(1..n) \ {k} : k \in 1..n}

RECURSIVE KeptBodies(_, _, _)
KeptBodies(added, keep, k) ==
    IF k > Len(added) THEN <<>>
    ELSE (IF k \in keep THEN <<added[k].body>> ELSE <<>>)
         \o KeptBodies(added, keep, k + 1)

\* The store after the creation loop and before the correction pass
Uncorrected(P, params, target1, added, keep) ==
    [P EXCEPT ![params.target] = target1] \o KeptBodies(added, keep, 1)

\* The identifiers FRAG<first>..FRAG<lastId> whose lookup returns NULL
MissingIds(P, first, lastId) ==
    {i \in first..lastId : particle_by_hash(P, Hash("FRAG", i)) = 0}

\* xoff and voff (problem.c:249-250)
Offsets(target1, added, com, initial_mass) ==
    [x |-> RSub(com.x, RDiv(RAdd(RMul(target1.m, target1.x),
                                 RSum([k \in 1..Len(added) |-> added[k].mx])),
                            initial_mass)),
     v |-> RSub(com.vx, RDiv(RAdd(RMul(target1.m, target1.vx),
                                  RSum([k \in 1..Len(added) |-> added[k].mv])),
                             initial_mass))]

\* What reading ->m through a NULL result can do: the process is stopped by a
\* fault, or the access goes astray outside the store and the loop goes on
NullAccessGrid == {"fault", "stray"}

\* The smallest element of a non-empty set of integers
Least(S) == CHOOSE i \in S : \A q \in S : i <= q

\* The correction pass of the copy.  mars_shearing_sheet tests the result of
\* the lookup (if (!p) continue;); fragmentation dereferences it as it is.
CorrectionPass(copy, S, targetIdx, first, lastId, off, initial_mass, moved, na) ==
    IF copy = "fragmentation" /\ MissingIds(S, first, lastId) # {}
    THEN [fault |-> na = "fault", null_access |-> TRUE,
          particles |->
            MomentumCorrection(S, targetIdx, first,
                IF na = "fault" THEN Least(MissingIds(S, first, lastId)) - 1
                ELSE lastId,
                off.x, off.v, initial_mass, moved)]
    ELSE [fault |-> FALSE, null_access |-> FALSE,
          particles |-> MomentumCorrection(S, targetIdx, first, lastId, off.x, off.v,
                                           initial_mass, moved)]

\* add_fragments from the creation loop on, with the bodies the host stored
SynthesizeOnHost(copy, c, params, target1, added, com, moved, na) ==
    \E keep \in KeepGrid(Len(added)) :
        LET S == Uncorrected(particles, params, target1, added, keep)
            first == tot_no_frags + 1
            lastId == tot_no_frags + Len(added)
            off == Offsets(target1, added, com, com.m)
            out == CorrectionPass(copy, S, params.target, first, lastId, off, com.m,
                                  moved, na)
        IN  /\ particles' = out.particles
            /\ tot_no_frags' = lastId
            /\ status' = IF out.fault THEN "fault" ELSE "running"
            /\ last' = [copy |-> copy, null_access |-> out.null_access,
                        missing |-> MissingIds(S, first, lastId),
                        uncorrected |-> S, off |-> off, moved |-> moved]
                       @@ Call("add_fragments", TRUE, c, 0, <<"add_fragments">>,
                               [params EXCEPT !.no_frags = Len(added)], NothingDrawn)
            /\ allocated' = allocated + 1
            /\ UNCHANGED <<t, min_frag_mass, report, pending, smol>>

\* add_fragments up to the creation loop (problem.c:85-139), for a call that
\* passes the sanity checks
AddFragmentsOnHost(copy, c, params, no_frags, big_frags, frag_mass0, com, rho, moved, na) ==
    SynthesizeOnHost(copy, c, params,
        NewTarget(particles[params.target], params.Mlr, no_frags, frag_mass0, com,
                  rho, t),
        NewBodies(params, tot_no_frags, no_frags, big_frags,
                  IF no_frags = 1 /\ RLe(params.Mlr, frag_mass0)
                  THEN params.Mlr ELSE frag_mass0,
                  com, rho, t),
        com, moved, na)

ApplyAddFragmentsOnHost ==
    /\ status = "running"
    /\ allocated = 0
    /\ \E copy \in Copies : \E i, j \in 1..Len(particles) : \E Mslr \in MslrGrid :
       \E moved \in MovedGrid : \E na \in NullAccessGrid :
       \E Mlr \in MlrGrid(RAdd(particles[i].m, particles[j].m)) :
          LET params == [Params(particles, i, j, MaxSpeed, 1, Mlr) EXCEPT !.Mslr = Mslr]
              rem == RemainingMass(particles, params)
          IN  /\ i # j
              /\ FragmentChecksPass(rem, min_frag_mass)
              /\ AddFragmentsOnHost(copy, [p1 |-> i, p2 |-> j], params,
                     RFloor(RDiv(rem, min_frag_mass)),
                     IF RLt(R(0), Mslr) THEN 1 ELSE 0,
                     RDiv(rem, R(RFloor(RDiv(rem, min_frag_mass)))),
                     com_of_pair(particles[i], particles[j]),
                     Density(particles[i]), moved, na)

InitHost ==
    /\ particles \in {<<a, b>> : a \in InitBody(1), b \in InitBody(2)}
    /\ t = 0
    /\ tot_no_frags = 0
    /\ min_frag_mass \in {R(1), <<1, 2>>}
    /\ report = <<>>
    /\ status = "running"
    /\ pending = 0
    /\ allocated = 0
    /\ last = NoCall
    /\ smol = NoSmol

SpecHost == InitHost /\ [][ApplyAddFragmentsOnHost]_vars

---------------------------------------------------------------------------
(* Coagulation module: the mass bins and their initialisation by smol_init, as
   driven by tests/test_smol.c *)

\* #define N_BIN 36
N_BIN == 36

\* pow(10.0, k/10) for k = 0..9, to four significant digits
MantissaTable == <<1000, 1259, 1585, 1995, 2512, 3162, 3981, 5012, 6310, 7943>>

\* pow(10.0, e/10) as mant * 10^(dec - 3), with 1000 <= mant < 10000
Pow10Tenths(e) == [mant |-> MantissaTable[(e % 10) + 1], dec |-> e \div 10]

PowLt(a, b) == a.dec < b.dec \/ (a.dec = b.dec /\ a.mant < b.mant)

\* The body of the loop for index i (0-based): bin i is the element i + 1
SmolBin(d, i) ==
    [d EXCEPT ![i + 1] = [m     |-> Pow10Tenths(i - 30),
                          n     |-> R(0),
                          v     |-> R(0),
                          sigma |-> R(0)]]

\* for(int i=0;i<N_BIN;i++){ ... }, with the index the loop ends on
RECURSIVE SmolLoop(_, _, _)
SmolLoop(d, i, n) ==
    IF i < n THEN SmolLoop(SmolBin(d, i), i + 1, n) ELSE [i |-> i, bins |-> d]

\* Faulty variant: the last bin is not written
smol_init_StopsEarly(d) == SmolLoop(d, 0, N_BIN - 1)

smol_init(d) == SmolLoop(d, 0, N_BIN)

\* What an array of an automatic SmolData may hold before it is written
GarbageGrid == {R(0), R(1), R(7), R(0 - 1)}

\* SmolData d; declared in main of the test and not initialised
InitSmol ==
    /\ particles = <<>>
    /\ t = 0
    /\ tot_no_frags = 0
    /\ min_frag_mass = R(1)
    /\ report = <<>>
    /\ status = "running"
    /\ pending = 0
    /\ allocated = 0
    /\ last = NoCall
    /\ \E gm \in GarbageGrid, gn \in GarbageGrid, gv \in GarbageGrid,
          gs \in GarbageGrid :
         LET d == [k \in 1..N_BIN |->
                     [m |-> [mant |-> gm[1], dec |-> 0], n |-> gn, v |-> gv,
                      sigma |-> gs]]
         IN  smol = [i |-> 0, bins |-> d, pre |-> d]

\* smol_init(&d);
CallSmolInit ==
    /\ smol.i = 0
    /\ smol.bins # <<>>
    /\ LET out == smol_init(smol.bins)
       IN  smol' = [i |-> out.i, bins |-> out.bins, pre |-> smol.bins]
    /\ UNCHANGED <<particles, t, tot_no_frags, min_frag_mass, report, status,
                   pending, last, allocated>>

SpecSmol == InitSmol /\ [][CallSmolInit]_vars

---------------------------------------------------------------------------
(* The bulk density the builder selects from the gravitational constant *)

\* Values of r->G: the three unit systems the builder knows (G = 1 is also
\* REBOUND's default) and the constant of shearing_sheet.c
KnownG == {"6.674e-8", "6.674e-11", "39.476926421373", "1"}
GGrid == KnownG \cup {"6.67428e-11"}

\* What the stack slot of rho1 may hold before any assignment
StackGrid == {0, 1000, 0 - 3}

\* double rho1; followed by the three if statements; set tells whether one
\* of them assigned it
rho1_select(G, uninit) ==
    LET cgs == IF G = "6.674e-8" THEN [v |-> 1, set |-> TRUE]
               ELSE [v |-> uninit, set |-> FALSE]
        si  == IF G = "6.674e-11" THEN [v |-> 1000, set |-> TRUE] ELSE cgs
    IN  IF G = "39.476926421373" \/ G = "1"
        THEN [v |-> 1684000, set |-> TRUE] ELSE si

\* The host has configured G and stored two bodies; rho1 is not yet declared
InitDensity ==
    /\ particles \in {<<a, b>> : a \in InitBody(1), b \in InitBody(2)}
    /\ t = 0
    /\ tot_no_frags = 0
    /\ min_frag_mass = R(1)
    /\ report = <<>>
    /\ status = "running"
    /\ pending = 0
    /\ allocated = 0
    /\ smol = NoSmol
    /\ \E G \in GGrid, slot \in StackGrid :
         last = [G |-> G, slot |-> slot, rho1 |-> 0, rho1_set |-> FALSE,
                 M_tot |-> R(0)] @@ NoCall

\* The builder up to the reads of rho1 in Rc1 and Q0, for the pair (2, 1)
ReadDensity ==
    /\ last.kind = "None"
    /\ LET sel == rho1_select(last.G, last.slot)
       IN  last' = [last EXCEPT !.kind = "rho1", !.p1 = 2, !.p2 = 1,
                                !.pre = particles,
                                !.rho1 = sel.v, !.rho1_set = sel.set,
                                !.M_tot = RAdd(particles[1].m, particles[2].m)]
    /\ UNCHANGED <<particles, t, tot_no_frags, min_frag_mass, report, status,
                   pending, allocated, smol>>

SpecDensity == InitDensity /\ [][ReadDensity]_vars

---------------------------------------------------------------------------
(* Properties *)

MergeKinds == {"Merge", "EffectiveMerge", "GrazeAndMerge"}
FragKinds == {"PartialAccretion", "PartialErosion", "SuperCatastrophic",
              "GrazingPartialErosion", "HitAndRun"}
BounceKinds == {"ElasticBounce"}
NoOpKinds == {"NoOpStamp", "NoOpOrder"}

\* The last call passed both guards and returned
Returned == last.passed /\ status = "running"

\* ... and the host has not yet acted on its disposition code
JustReturned == Returned /\ pending = last.ret

\* The bodies the last call appended, in the order of the store
Created == SubSeq(particles, Len(last.pre) + 1, Len(particles))

\* The target slot followed by the appended bodies
TargetAndCreated == <<particles[last.params.target]>> \o Created

MassOf(bodies) == RSum([k \in 1..Len(bodies) |-> bodies[k].m])

PreMass == RAdd(last.pre[last.params.target].m, last.pre[last.params.projectile].m)

\* C1: after every call that passed the guards and returned, the masses of the
\* target slot, of the appended bodies and (when the disposition code is 0) of
\* the projectile add up to m_target + m_projectile as they were before.
C1_MassConservation ==
    JustReturned =>
        RAdd(MassOf(TargetAndCreated),
             IF last.ret = 0 THEN particles[last.params.projectile].m ELSE R(0))
        = PreMass

\* A hit-and-run that made a second-largest remnant and a fragment has returned
C1_Witness ==
    /\ JustReturned
    /\ last.kind = "HitAndRun"
    /\ Len(Created) >= 2

Tolerance == <<1, 2>>

\* mass-weighted sums over the target and the created bodies
MomentX(bodies) == RSum([k \in 1..Len(bodies) |-> RMul(bodies[k].m, bodies[k].x)])
MomentV(bodies) == RSum([k \in 1..Len(bodies) |-> RMul(bodies[k].m, bodies[k].vx)])

PreMomentX ==
    RAdd(RMul(last.pre[last.params.target].m, last.pre[last.params.target].x),
         RMul(last.pre[last.params.projectile].m, last.pre[last.params.projectile].x))
PreMomentV ==
    RAdd(RMul(last.pre[last.params.target].m, last.pre[last.params.target].vx),
         RMul(last.pre[last.params.projectile].m, last.pre[last.params.projectile].vx))

\* C2: after every fragmentation event the mass-weighted sums of position and
\* of velocity over the target and the bodies created in the call equal
\* (m_target + m_projectile) times the centre of mass of the original pair,
\* to within Tolerance.
C2_CentreOfMassConserved ==
    (JustReturned /\ last.kind \in FragKinds) =>
        /\ RLe(RAbs(RSub(MomentX(TargetAndCreated), PreMomentX)), Tolerance)
        /\ RLe(RAbs(RSub(MomentV(TargetAndCreated), PreMomentV)), Tolerance)

\* A fragmentation whose fragments are spread evenly: the sums do agree
C2_Witness ==
    /\ JustReturned
    /\ last.kind \in FragKinds
    /\ Len(Created) >= 2
    /\ RLe(RAbs(RSub(MomentX(TargetAndCreated), PreMomentX)), Tolerance)

OperatorOf(kind) ==
    IF kind \in MergeKinds THEN "merge"
    ELSE IF kind \in FragKinds THEN "add_fragments" ELSE "hardsphere"

\* C3: every call that passes the guards with a valid impact parameter reaches
\* exactly one of the nine outcomes and invokes exactly one operator, once.
C3_ClassifierTotality ==
    (last.passed /\ last.kind # "NanB") =>
        /\ last.kind \in MergeKinds \cup FragKinds \cup BounceKinds
        /\ last.ops = <<OperatorOf(last.kind)>>

\* An elastic bounce: the one operator invoked is the restitution resolver
C3_Witness ==
    /\ Returned
    /\ last.kind = "ElasticBounce"
    /\ last.ops = <<"hardsphere">>

\* C4: in every step the counter tot_no_frags does not decrease; the bodies a
\* step appends are named FRAG<tot_no_frags + 1>, FRAG<tot_no_frags + 2>, ..
\* in the order of creation, the second-largest remnant first, and the
\* counter advances by their number.
C4_MonotonicIdentifiers ==
    [][/\ tot_no_frags' >= tot_no_frags
       /\ Len(particles') > Len(particles) =>
            /\ tot_no_frags' = tot_no_frags + (Len(particles') - Len(particles))
            /\ \A k \in 1..(Len(particles') - Len(particles)) :
                  particles'[Len(particles) + k].hash = Hash("FRAG", tot_no_frags + k)
            /\ RLt(R(0), last'.params.Mslr) =>
                  particles'[Len(particles) + 1].m = last'.params.Mslr
       /\ Len(particles') <= Len(particles) => tot_no_frags' = tot_no_frags]_vars

\* Two calls have each created bodies, the earlier one a second-largest
\* remnant and a fragment, and the later one went on from the next number
C4_Witness ==
    /\ Len(report) = 2
    /\ report[1].collision_type = 2
    /\ Len(report[1].frags) >= 2
    /\ Len(report[2].frags) >= 1
    /\ report[2].frags[1][1] = Hash("FRAG", Len(report[1].frags) + 1)

\* a step that is a resolve call naming p1 and p2
IsCall(p1, p2) == last' # last /\ last'.p1 = p1 /\ last'.p2 = p2

\* the call before was at this simulation time and on these two bodies
SamePairAsLast(p1, p2) ==
    /\ last.kind # "None"
    /\ last.t = t
    /\ {particles[p1].hash, particles[p2].hash}
         = {last.pre[last.p1].hash, last.pre[last.p2].hash}

Ignored ==
    /\ last'.ret = 0
    /\ ~last'.passed
    /\ UNCHANGED <<particles, t, tot_no_frags, min_frag_mass, report, status,
                   pending, allocated>>

\* C5, as stated: a second call at the same time on the same pair, in either
\* order, returns 0 and changes nothing, whatever the first call did (merge,
\* a fragmentation kind, or a no-op).
C5_SecondCallIgnored ==
    [][\A p1, p2 \in 1..Len(particles) :
          (/\ SamePairAsLast(p1, p2)
           /\ last.kind \in MergeKinds \cup FragKinds \cup NoOpKinds
           /\ IsCall(p1, p2)) => Ignored]_vars

\* C5, amended: a second call at the same time on the same pair, in either
\* order, returns 0 and changes nothing when the first call merged or
\* fragmented the pair.
C5_SecondCallIgnoredAfterResolution ==
    [][\A p1, p2 \in 1..Len(particles) :
          (/\ SamePairAsLast(p1, p2)
           /\ last.passed
           /\ last.kind \in MergeKinds \cup FragKinds
           /\ IsCall(p1, p2)) => Ignored]_vars

\* The pair was reported again while its projectile still awaited removal,
\* and the call was ignored
C5_Witness ==
    /\ last.kind = "NoOpStamp"
    /\ pending # 0
    /\ particles = last.pre

\* C6: a call naming a body whose last_collision equals the current time
\* returns 0 and leaves every part of the state as it was.
C6_AlreadyResolvedGuard ==
    [][\A p1, p2 \in 1..Len(particles) :
          (/\ particles[p1].last_collision = t \/ particles[p2].last_collision = t
           /\ IsCall(p1, p2)) => Ignored]_vars

\* After the host removed a projectile, a call naming the stamped target was
\* ignored
C6_Witness ==
    /\ last.kind = "NoOpStamp"
    /\ pending = 0
    /\ \E k \in {last.p1, last.p2} : particles[k].last_collision = last.t

\* the slot a disposition code of 1 or 2 names, and the other slot of the pair
NamedSlot == IF last.ret = 1 THEN last.p1 ELSE last.p2
OtherSlot == IF last.ret = 1 THEN last.p2 ELSE last.p1

\* C7: the disposition code is 0, 1 or 2; a code of 1 or 2 names the slot of
\* the projectile (the lighter body at entry, or the second-named one on
\* equal masses), never the target's; the code of an outcome reached inside
\* hit_and_run is the one the resolver itself computes; 0 is returned only by
\* the no-op guards and by ElasticBounce.
C7_DispositionCode ==
    (last.kind # "None" /\ status = "running") =>
        /\ last.ret \in {0, 1, 2}
        /\ last.ret \in {1, 2} =>
              /\ NamedSlot = last.params.projectile
              /\ NamedSlot # last.params.target
              /\ \/ RLt(last.pre[NamedSlot].m, last.pre[OtherSlot].m)
                 \/ /\ last.pre[NamedSlot].m = last.pre[OtherSlot].m
                    /\ NamedSlot = last.p2
        /\ last.kind \in {"GrazeAndMerge", "GrazingPartialErosion", "HitAndRun"} =>
              last.ret = IF RLt(last.pre[last.p1].m, last.pre[last.p2].m) THEN 1 ELSE 2
        /\ last.ret = 0 => last.kind \in NoOpKinds \cup BounceKinds

\* A grazing erosion whose first-named body was the lighter one
C7_Witness ==
    /\ Returned
    /\ last.kind = "GrazingPartialErosion"
    /\ last.ret = 1

RemainingOf(bodies, params) ==
    RSub(RSub(RAdd(bodies[params.target].m, bodies[params.projectile].m), params.Mlr),
         params.Mslr)

\* the three fatal preconditions
Fatal(bodies, params, mfm) ==
    \/ RLe(mfm, R(0))
    \/ RLe(RemainingOf(bodies, params), R(0))
    \/ RFloor(RDiv(RemainingOf(bodies, params), mfm)) <= 0
    \/ RFloor(RDiv(RemainingOf(bodies, params), mfm)) >= FragCeiling

\* C8: add_fragments stops the run exactly when min_frag_mass <= 0, or the
\* remaining mass is <= 0, or the fragment count is outside (0, 10^6), and
\* then the store and the fragment counter are as they were before the call.
C8_FatalPreconditions ==
    last.kind = "add_fragments" =>
        /\ (status = "aborted") <=> Fatal(last.pre, last.params, min_frag_mass)
        /\ status = "aborted" =>
              /\ particles = last.pre
              /\ tot_no_frags = last.preTot

\* A positive remaining mass and a positive minimum fragment mass whose ratio
\* reaches the ceiling: the run is stopped
C8_Witness ==
    /\ last.kind = "add_fragments"
    /\ status = "aborted"
    /\ RLt(R(0), min_frag_mass)
    /\ RLt(R(0), RemainingOf(last.pre, last.params))
    /\ RFloor(RDiv(RemainingOf(last.pre, last.params), min_frag_mass)) >= FragCeiling

LastLine == report[Len(report)]

\* C9: a call that passed the guards and returned has appended exactly one
\* line, written after the operator changed the store: it carries the
\* target's new mass and lists exactly the bodies the call created, in
\* creation order (none for merge and bounce outcomes); a call that returned
\* through a guard has appended none.
C9_EventRecordCardinality ==
    /\ JustReturned =>
          /\ Len(report) = last.preReport + 1
          /\ LastLine.target_m = particles[last.params.target].m
          /\ LastLine.frags = [k \in 1..Len(Created) |-> <<Created[k].hash, Created[k].m>>]
          /\ last.kind \in MergeKinds \cup BounceKinds => LastLine.frags = <<>>
    /\ last.kind \in NoOpKinds => Len(report) = last.preReport

\* A partial erosion whose line lists two or more created bodies
C9_Witness ==
    /\ JustReturned
    /\ last.kind = "PartialErosion"
    /\ Len(LastLine.frags) >= 2
    /\ Len(report) = last.preReport + 1

CodeOf(kind) ==
    IF kind \in BounceKinds THEN 0
    ELSE IF kind \in MergeKinds THEN 1
    ELSE IF kind \in {"PartialAccretion", "HitAndRun"} THEN 2
    ELSE IF kind \in {"PartialErosion", "GrazingPartialErosion"} THEN 3
    ELSE 4

\* C10: the code on the line of a resolved collision is 0 for ElasticBounce,
\* 1 for Merge, EffectiveMerge and GrazeAndMerge, 2 for PartialAccretion and
\* HitAndRun, 3 for PartialErosion and GrazingPartialErosion, 4 for
\* SuperCatastrophic, and no line carries any other value.
C10_OutcomeKindCode ==
    /\ Returned => LastLine.collision_type = CodeOf(last.kind)
    /\ \A k \in 1..Len(report) : report[k].collision_type \in 0..4

\* A super-catastrophic disruption was recorded with code 4
C10_Witness ==
    /\ Returned
    /\ last.kind = "SuperCatastrophic"
    /\ LastLine.collision_type = 4

---------------------------------------------------------------------------
(* C11: the merge operator *)

PreTarget == last.pre[last.params.target]
PreProjectile == last.pre[last.params.projectile]

\* q is the mass-weighted mean of a (of the target) and b (of the projectile),
\* to within half a unit of the stored precision
WeightedMean(q, a, b) ==
    RLe(RAbs(RSub(RMul(q, PreMass),
                  RAdd(RMul(PreTarget.m, a), RMul(PreProjectile.m, b)))),
        RDiv(PreMass, R(2 * Scale)))

\* What the merge operator leaves behind, stated on the store before the call
MergedAsSpecified ==
    /\ Len(particles) = Len(last.pre)
    /\ particles[last.params.target].m = PreMass
    /\ WeightedMean(particles[last.params.target].x, PreTarget.x, PreProjectile.x)
    /\ WeightedMean(particles[last.params.target].vx, PreTarget.vx, PreProjectile.vx)
    /\ RDiv(particles[last.params.target].m, particles[last.params.target].r3)
         = RDiv(PreTarget.m, PreTarget.r3)
    /\ particles[last.params.target].last_collision = last.t
    /\ particles[last.params.target].hash = PreTarget.hash
    /\ \A k \in 1..Len(particles) :
         k # last.params.target => particles[k] = last.pre[k]

\* C11: after a merge the target has mass m_t + m_p, position and velocity the
\* mass-weighted means taken with the masses before the merge, a radius
\* recomputed from the combined mass at the target's own earlier density, and
\* its last-collision time set to the current time; the projectile and every
\* other body are unchanged.
C11_MergeOperator ==
    (JustReturned /\ last.kind \in MergeKinds) => MergedAsSpecified

\* A merge of two bodies of different mass, position and velocity, with a third
\* body in the store
C11_Witness ==
    /\ JustReturned
    /\ last.kind = "Merge"
    /\ Len(particles) >= 3
    /\ PreTarget.m # PreProjectile.m
    /\ PreTarget.x # PreProjectile.x
    /\ PreTarget.vx # PreProjectile.vx
    /\ particles[last.params.target].m = PreMass

---------------------------------------------------------------------------
(* C12: initialisation of the mass bins *)

\* C12: after smol_init every one of the N_BIN = 36 bins has n, v and sigma
\* exactly 0 and m = 10^(-3 + 0.1 i) for its 0-based index i, the masses are
\* strictly increasing from 10^-3 to 10^0.5, and no bin keeps what it held
\* before.
C12_SmolInit ==
    smol.i > 0 =>
        /\ smol.i = N_BIN
        /\ Len(smol.bins) = N_BIN
        /\ \A k \in 1..N_BIN :
             /\ smol.bins[k].n = R(0)
             /\ smol.bins[k].v = R(0)
             /\ smol.bins[k].sigma = R(0)
             /\ smol.bins[k].m = Pow10Tenths(k - 31)
        /\ \A k \in 1..(N_BIN - 1) : PowLt(smol.bins[k].m, smol.bins[k + 1].m)
        /\ smol.bins[1].m = [mant |-> 1000, dec |-> 0 - 3]
        /\ smol.bins[N_BIN].m = [mant |-> 3162, dec |-> 0]

\* The structure held non-zero values in every array before the call, and the
\* last bin holds the initial values after it
C12_Witness ==
    /\ smol.i = N_BIN
    /\ smol.pre[N_BIN].n # R(0)
    /\ smol.pre[N_BIN].v # R(0)
    /\ smol.pre[N_BIN].sigma # R(0)
    /\ smol.pre[N_BIN].m.mant # 3162
    /\ smol.bins[N_BIN].sigma = R(0)
    /\ smol.bins[N_BIN].m.mant = 3162

---------------------------------------------------------------------------
(* C13: the classifier *)

\* The last call went through the classifier
Classified == last.passed /\ last.kind \notin {"None", "NanB", "add_fragments"}

GrazingKinds == {"GrazeAndMerge", "GrazingPartialErosion", "HitAndRun",
                 "ElasticBounce"}

\* The outcome the rules give a non-grazing impact faster than V_esc
NonGrazingRule(Mlr, targ_m, M_tot, mfm) ==
    IF RLt(RSub(M_tot, Mlr), mfm) THEN "EffectiveMerge"
    ELSE IF RLt(Mlr, targ_m) /\ RLe(RMul(R(10), Mlr), targ_m) THEN "SuperCatastrophic"
    ELSE IF RLt(Mlr, targ_m) THEN "PartialErosion"
    ELSE "PartialAccretion"

\* C13: the rules are applied in order.  Vi <= V_esc gives Merge whatever the
\* geometry; otherwise, with b below the target radius, EffectiveMerge when
\* M_tot - Mlr < min_frag_mass, else SuperCatastrophic when Mlr < m_target and
\* Mlr <= 0.1 m_target, else PartialErosion when Mlr < m_target, else
\* PartialAccretion; otherwise the hit-and-run sub-resolver decides.  In
\* SuperCatastrophic and PartialErosion the largest remnant handed to the
\* synthesizer is Mlr raised to at least min_frag_mass.
C13_ClassifierRules ==
    Classified =>
        IF RLe(last.params.Vi, last.params.V_esc)
        THEN last.kind = "Merge"
        ELSE IF RLt(last.drawn.b, R(1))
        THEN /\ last.kind = NonGrazingRule(last.drawn.Mlr, PreTarget.m, PreMass,
                                           min_frag_mass)
             /\ last.kind \in {"SuperCatastrophic", "PartialErosion"} =>
                    /\ RLe(min_frag_mass, last.params.Mlr)
                    /\ RLe(last.drawn.Mlr, last.params.Mlr)
                    /\ last.params.Mlr \in {last.drawn.Mlr, min_frag_mass}
             /\ last.kind \in {"PartialAccretion", "EffectiveMerge"} =>
                    last.params.Mlr = last.drawn.Mlr
        ELSE last.kind \in GrazingKinds

\* A super-catastrophic disruption whose largest remnant was raised to
\* min_frag_mass
C13_Witness ==
    /\ Returned
    /\ last.kind = "SuperCatastrophic"
    /\ RLt(last.drawn.Mlr, min_frag_mass)
    /\ last.params.Mlr = min_frag_mass
    /\ particles[last.params.target].last_collision = last.t

---------------------------------------------------------------------------
(* C14: a graze-and-merge is a merge *)

\* The disposition code the resolver computes at entry: the first-named body
\* when it is the lighter one, the second-named body otherwise
EntryCode == IF RLt(last.pre[last.p1].m, last.pre[last.p2].m) THEN 1 ELSE 2

\* Everything a merge through the Vi <= V_esc path leaves behind
LikeSimpleMerge ==
    /\ MergedAsSpecified
    /\ last.ret = EntryCode
    /\ last.params.projectile = NamedSlot
    /\ last.ops = <<"merge">>
    /\ tot_no_frags = last.preTot
    /\ Len(report) = last.preReport + 1
    /\ LastLine.collision_type = 1
    /\ LastLine.frags = <<>>
    /\ last.params.Mslr = R(0)
    /\ last.params.no_frags = 0

\* C14: a grazing impact with V_esc < Vi <= v_crit leaves the same store, the
\* same counter, the same record and the same disposition code as the merge
\* operator applied to the same two bodies through the Vi <= V_esc path.
C14_GrazeAndMergeIsMerge ==
    (JustReturned /\ last.kind \in {"GrazeAndMerge", "Merge"}) => LikeSimpleMerge

\* A graze-and-merge of two bodies of equal mass, and so of code 2
C14_Witness ==
    /\ JustReturned
    /\ last.kind = "GrazeAndMerge"
    /\ RLt(last.params.V_esc, last.params.Vi)
    /\ RLe(last.params.Vi, last.drawn.v_crit)
    /\ ~RLt(last.drawn.b, R(1))
    /\ PreTarget.m = PreProjectile.m
    /\ last.ret = 2

---------------------------------------------------------------------------
(* C15: the grazing erosion branch of the hit-and-run sub-resolver *)

\* Mlr after line 342 has raised it to at least min_frag_mass
RaisedMlr == MAX(last.drawn.Mlr, min_frag_mass)

\* The last call was a grazing impact faster than v_crit
FastGraze ==
    /\ Classified
    /\ RLt(last.params.V_esc, last.params.Vi)
    /\ ~RLt(last.drawn.b, R(1))
    /\ RLt(last.drawn.v_crit, last.params.Vi)

\* ... whose raised Mlr is below the target's mass
GrazingErosion == FastGraze /\ RLt(RaisedMlr, PreTarget.m)

Residual == RSub(PreMass, RaisedMlr)

\* C15: in the hit-and-run sub-resolver with Vi > v_crit and the raised Mlr
\* below m_target, the outcome is ElasticBounce when m_target + m_projectile
\* - Mlr is below min_frag_mass and GrazingPartialErosion in every other case,
\* a residual exactly equal to min_frag_mass included.
C15_GrazingErosionBranch ==
    GrazingErosion =>
        last.kind = IF RLt(Residual, min_frag_mass) THEN "ElasticBounce"
                    ELSE "GrazingPartialErosion"

\* A grazing erosion with a residual exactly equal to min_frag_mass that was
\* resolved as an elastic bounce
C15_Witness ==
    /\ GrazingErosion
    /\ Returned
    /\ Residual = min_frag_mass
    /\ last.kind = "ElasticBounce"
    /\ last.ops = <<"hardsphere">>
    /\ Len(particles) = Len(last.pre)

---------------------------------------------------------------------------
(* C16: the hit-and-run branch of the hit-and-run sub-resolver *)

HitAndRunBranch == FastGraze /\ ~RLt(RaisedMlr, PreTarget.m)

\* Mlr_dag after line 363 has raised it to at least min_frag_mass
RaisedMlrDag == MAX(last.drawn.Mlr_dag, min_frag_mass)

\* What the projectile keeps beyond its accreted part and Mlr_dag
ProjectileLeft ==
    RSub(RSub(PreProjectile.m, RSub(RaisedMlr, PreTarget.m)), RaisedMlrDag)

\* The bodies a hit-and-run appends: one of mass Mlr_dag first, then
\* floor(left / min_frag_mass) bodies that share what is left equally
HitAndRunBodies ==
    /\ last.params.Mslr = RaisedMlrDag
    /\ RLe(min_frag_mass, last.params.Mslr)
    /\ Len(Created) = 1 + RFloor(RDiv(ProjectileLeft, min_frag_mass))
    /\ Created[1].m = RaisedMlrDag
    /\ \A k \in 2..Len(Created) :
         Created[k].m = RDiv(ProjectileLeft, R(Len(Created) - 1))
    /\ particles[last.params.target].m = RaisedMlr

\* C16: in the hit-and-run sub-resolver with Vi > v_crit and Mlr >= m_target,
\* Mlr_dag is raised to at least min_frag_mass; the outcome is ElasticBounce
\* when (m_projectile - (Mlr - m_target)) - Mlr_dag < min_frag_mass, and
\* HitAndRun otherwise, where the synthesizer runs with Mslr = Mlr_dag and
\* creates exactly one second-largest remnant of mass Mlr_dag besides the
\* equal-mass fragments (unless its sanity checks stop the run).
C16_HitAndRunBranch ==
    HitAndRunBranch =>
        /\ last.kind = IF RLt(ProjectileLeft, min_frag_mass) THEN "ElasticBounce"
                       ELSE "HitAndRun"
        /\ last.kind = "HitAndRun" =>
              /\ last.ops = <<"add_fragments">>
              /\ last.params.Mslr = RaisedMlrDag
              /\ JustReturned => HitAndRunBodies

\* A hit-and-run whose Mlr_dag was raised to min_frag_mass and became the
\* second-largest remnant, next to at least one fragment
C16_Witness ==
    /\ HitAndRunBranch
    /\ JustReturned
    /\ last.kind = "HitAndRun"
    /\ RLt(last.drawn.Mlr_dag, min_frag_mass)
    /\ Len(Created) >= 2
    /\ Created[1].m = min_frag_mass

---------------------------------------------------------------------------
(* C17: the effect of an elastic bounce *)

\* The store is what one call of the restitution resolver makes of the store
\* before the call
OnlyHardsphereActed ==
    \E hs \in HardsphereGrid :
        particles = reb_collision_resolve_hardsphere(
                        last.pre, [p1 |-> last.p1, p2 |-> last.p2], last.t, hs)

\* C17: an ElasticBounce invokes the restitution resolver exactly once, returns
\* disposition 0, appends no body and leaves the fragment counter unchanged;
\* no mass, radius or position of any body changes, and the store differs
\* from the one before the call only by what the restitution resolver did.
C17_ElasticBounceEffect ==
    (Returned /\ last.kind \in BounceKinds) =>
        /\ last.ops = <<"hardsphere">>
        /\ last.ret = 0
        /\ pending = 0
        /\ Len(particles) = Len(last.pre)
        /\ tot_no_frags = last.preTot
        /\ \A k \in 1..Len(particles) :
             /\ particles[k].m = last.pre[k].m
             /\ particles[k].r3 = last.pre[k].r3
             /\ particles[k].x = last.pre[k].x
             /\ particles[k].hash = last.pre[k].hash
        /\ OnlyHardsphereActed
        /\ LastLine.frags = <<>>

\* A bounce in which the restitution resolver changed the velocities of both
\* bodies
C17_Witness ==
    /\ Returned
    /\ last.kind = "ElasticBounce"
    /\ last.ret = 0
    /\ particles[last.p1].vx # last.pre[last.p1].vx
    /\ particles[last.p2].vx # last.pre[last.p2].vx
    /\ particles[last.p1].m = last.pre[last.p1].m

---------------------------------------------------------------------------
(* C18: the number of bodies the synthesizer appends *)

\* The last call ran add_fragments, which returned
Synthesized ==
    /\ JustReturned
    /\ last.kind \in FragKinds \cup {"add_fragments"}

\* m_target + m_projectile - Mlr - Mslr
ToShare == RSub(RSub(PreMass, last.params.Mlr), last.params.Mslr)

\* n = floor(q / min_frag_mass)
IsFloorOf(n, q) ==
    /\ RLe(RMul(R(n), min_frag_mass), q)
    /\ RLt(q, RMul(R(n + 1), min_frag_mass))

BigFrags == IF RLt(R(0), last.params.Mslr) THEN 1 ELSE 0

\* The appended bodies that are not the second-largest remnant
EqualFragments == SubSeq(Created, BigFrags + 1, Len(Created))

\* C18: a successful add_fragments appends exactly
\* floor((m_target + m_projectile - Mlr - Mslr) / min_frag_mass) fragments of
\* one and the same mass, plus one body iff Mslr > 0; it records the total in
\* the context's fragment count and removes no body, so the number of bodies
\* grows by exactly that total.
C18_NumberOfNewBodies ==
    Synthesized =>
        /\ IsFloorOf(Len(EqualFragments), ToShare)
        /\ Len(Created) = Len(EqualFragments) + BigFrags
        /\ \A k \in 1..Len(EqualFragments) : EqualFragments[k].m = EqualFragments[1].m
        /\ BigFrags = 1 => Created[1].m = last.params.Mslr
        /\ last.params.no_frags = Len(Created)
        /\ Len(particles) = Len(last.pre) + last.params.no_frags
        /\ \A k \in 1..Len(last.pre) : particles[k].hash = last.pre[k].hash

\* A call with a second-largest remnant and two or more equal fragments
C18_Witness ==
    /\ Synthesized
    /\ last.kind = "add_fragments"
    /\ BigFrags = 1
    /\ Len(EqualFragments) >= 2
    /\ Len(particles) = Len(last.pre) + 1 + Len(EqualFragments)

---------------------------------------------------------------------------
(* C19: the partition of the remaining mass *)

\* remaining_mass / no_frags
EqualShare == RDiv(ToShare, R(Len(EqualFragments)))

\* Every fragment has the equal share and the target slot holds Mlr
PartitionedEqually ==
    /\ \A k \in 1..Len(EqualFragments) : EqualFragments[k].m = EqualShare
    /\ particles[last.params.target].m = last.params.Mlr

\* A single fragment that would be heavier than the largest remnant
SingleHeavierFragment == Len(EqualFragments) = 1 /\ RLt(last.params.Mlr, ToShare)

\* C19, as stated: every one of the no_frags fragments has mass exactly
\* remaining_mass / no_frags with remaining_mass = m_target + m_projectile -
\* Mlr - Mslr, and the target slot holds exactly Mlr, for every fragment count
\* including no_frags = 1.
C19_EqualPartition == Synthesized => PartitionedEqually

\* C19, as the code has it: the same, except that a single fragment heavier
\* than Mlr exchanges its mass with the target, so that the target slot holds
\* remaining_mass and the fragment holds Mlr.
C19_EqualPartitionUnlessExchanged ==
    Synthesized =>
        IF SingleHeavierFragment
        THEN /\ EqualFragments[1].m = last.params.Mlr
             /\ particles[last.params.target].m = ToShare
        ELSE PartitionedEqually

\* A call with one fragment heavier than Mlr: the target slot holds the
\* remaining mass
C19_Witness ==
    /\ Synthesized
    /\ SingleHeavierFragment
    /\ particles[last.params.target].m = ToShare
    /\ particles[last.params.target].m # last.params.Mlr

---------------------------------------------------------------------------
(* C20: accounting of the fragment counter *)

\* The bodies listed as created on the lines of the record so far
RECURSIVE CreatedSoFar(_)
CreatedSoFar(k) == IF k = 0 THEN 0 ELSE Len(report[k].frags) + CreatedSoFar(k - 1)

\* What one step does to the counter
CounterStep ==
    IF last' # last
    THEN /\ tot_no_frags' - tot_no_frags = Len(particles') - Len(particles)
         /\ last'.kind \notin FragKinds => tot_no_frags' = tot_no_frags
         /\ (last'.kind \in FragKinds /\ status' = "running") =>
                /\ tot_no_frags' - tot_no_frags = last'.params.no_frags
                /\ last'.params.no_frags
                     = Len(LET n == Len(report') IN report'[n].frags)
    ELSE tot_no_frags' = tot_no_frags

\* C20: each add_fragments call advances the fragment counter by exactly the
\* number of bodies it appended (no_frags, plus one with a second-largest
\* remnant); merge, ElasticBounce and no-op resolutions leave it unchanged;
\* so the counter always equals its seed, 0, plus the number of fragment
\* bodies created so far.
C20_CounterAccounting ==
    /\ [](tot_no_frags = CreatedSoFar(Len(report)))
    /\ [][CounterStep]_vars

\* After a hit-and-run that advanced the counter by its second-largest remnant
\* and its fragments, a merge has left the counter where it was
C20_Witness ==
    /\ Returned
    /\ last.kind \in MergeKinds
    /\ Len(report) = 2
    /\ report[1].collision_type = 2
    /\ tot_no_frags = Len(report[1].frags)
    /\ tot_no_frags >= 2
    /\ tot_no_frags = last.preTot

---------------------------------------------------------------------------
(* C21: identifiers the correction pass does not find *)

\* The last call looked up an identifier that names no body of the store
LookupMissed == last.kind = "add_fragments" /\ last.missing # {}

\* A body after its share of the offsets has been added
Corrected(p) ==
    [p EXCEPT !.x  = Round(RAdd(p.x, RMul(last.off.x, RDiv(p.m, PreMass)))),
              !.vx = Round(RAdd(p.vx, RMul(last.off.v, RDiv(p.m, PreMass))))]

\* The target (written through the pointer taken at entry, which reaches the
\* store unless the array was moved) and every stored body of this call have
\* been corrected, and no other body has been touched
CorrectionApplied ==
    /\ Len(particles) = Len(last.uncorrected)
    /\ \A k \in 1..Len(particles) :
         particles[k] =
            IF k > Len(last.pre) \/ (k = last.params.target /\ ~last.moved)
            THEN Corrected(last.uncorrected[k])
            ELSE last.uncorrected[k]

\* C21: in the correction pass of add_fragments, in either copy of the
\* synthesizer, an identifier whose lookup finds no body is skipped without a
\* fault and without an access through the missing result, and the correction
\* is still applied to the target and to every fragment that is found.
C21_MissingIdentifierSkipped ==
    LookupMissed =>
        /\ status = "running"
        /\ ~last.null_access
        /\ CorrectionApplied

\* The fragmentation copy met an identifier that names no body and was stopped
\* by a fault
C21_Witness ==
    /\ LookupMissed
    /\ last.copy = "fragmentation"
    /\ last.null_access
    /\ status = "fault"

\* What holds of the mars_shearing_sheet copy alone
MarsCopySkipsMissing ==
    (LookupMissed /\ last.copy = "mars_shearing_sheet") =>
        /\ status = "running"
        /\ ~last.null_access
        /\ CorrectionApplied

\* The mars_shearing_sheet copy skipped an identifier and corrected a fragment
\* that it found
MarsCopySkipped ==
    /\ LookupMissed
    /\ last.copy = "mars_shearing_sheet"
    /\ Len(particles) > Len(last.pre)
    /\ particles[Len(particles)].x # last.uncorrected[Len(particles)].x

---------------------------------------------------------------------------
(* C22: the single-fragment swap *)

\* One equal-mass fragment whose share is at least Mlr
SingleFragmentNotLighter == Len(EqualFragments) = 1 /\ RLe(last.params.Mlr, ToShare)

\* C22: when add_fragments makes exactly one equal-mass fragment and its share
\* remaining_mass would be at least Mlr, the target takes that share, with its
\* radius recomputed from it at the target's earlier density, and the
\* fragment takes Mlr; the target slot ends with the larger of the two masses
\* and the two masses still add up to Mlr + remaining_mass.
C22_SingleFragmentSwap ==
    (Synthesized /\ SingleFragmentNotLighter) =>
        /\ particles[last.params.target].m = ToShare
        /\ particles[last.params.target].r3 = RDiv(ToShare, Density(PreTarget))
        /\ EqualFragments[1].m = last.params.Mlr
        /\ EqualFragments[1].r3 = RDiv(last.params.Mlr, Density(PreTarget))
        /\ RLe(EqualFragments[1].m, particles[last.params.target].m)
        /\ RAdd(particles[last.params.target].m, EqualFragments[1].m)
             = RAdd(last.params.Mlr, ToShare)

\* A swap that changed both masses: the single fragment's share was above Mlr
C22_Witness ==
    /\ Synthesized
    /\ SingleFragmentNotLighter
    /\ RLt(last.params.Mlr, ToShare)
    /\ particles[last.params.target].m = ToShare
    /\ EqualFragments[1].m = last.params.Mlr

---------------------------------------------------------------------------
(* C23: the bounds of Mlr in the context *)

\* Mlr as the builder stored it (problem.c:550); on the Vi <= V_esc path the
\* model keeps M_tot, the value of the formula for a vanishing impact energy
StoredMlr == IF last.drawn.Mlr = NotDrawn THEN last.params.Mlr ELSE last.drawn.Mlr

WithinMlrBounds(Mlr) == RLe(min_frag_mass, Mlr) /\ RLe(Mlr, PreMass)

\* C23: in every context, from the moment the builder stores Mlr, through
\* every comparison against it, to the hand-over to the merge operator or the
\* synthesizer, min_frag_mass <= Mlr <= m_target + m_projectile.
C23_MlrWithinBounds ==
    Classified =>
        /\ WithinMlrBounds(StoredMlr)
        /\ WithinMlrBounds(last.params.Mlr)

\* A partial erosion whose Mlr was stored and compared below min_frag_mass and
\* raised only afterwards
C23_Witness ==
    /\ Classified
    /\ last.kind = "PartialErosion"
    /\ RLt(StoredMlr, min_frag_mass)
    /\ RLt(R(0), StoredMlr)
    /\ last.params.Mlr = min_frag_mass

\* What holds at the hand-over to the synthesizer in the outcomes that raise Mlr
MlrRaisedAtHandOver ==
    (Classified /\ last.kind \in {"SuperCatastrophic", "PartialErosion",
                                  "GrazingPartialErosion", "HitAndRun"}) =>
        WithinMlrBounds(last.params.Mlr)

---------------------------------------------------------------------------
(* C24: an impact parameter that is not a real number *)

\* A step in which the resolver found b to be NaN
NanBStep == last' # last /\ last'.kind = "NanB"

\* C24: when the impact parameter is not a real number (zero relative velocity
\* with the bodies at or inside contact), the resolver stops the run before
\* classifying: no body is modified or appended, the fragment counter and the
\* record stay as they are, no disposition code reaches the host, and nothing
\* happens afterwards.
C24_NanBIsFatal ==
    [][/\ status # "exited"
       /\ NanBStep =>
            /\ particles[last'.p1].vx = particles[last'.p2].vx
            /\ status' = "exited"
            /\ UNCHANGED <<particles, tot_no_frags, report, pending, t>>
            /\ last'.ops = <<>>]_vars

\* The run was ended by a NaN impact parameter after one collision had been
\* resolved and recorded
C24_Witness ==
    /\ status = "exited"
    /\ last.kind = "NanB"
    /\ Len(report) = 1
    /\ particles = last.pre
    /\ last.pre[last.p1].vx = last.pre[last.p2].vx

---------------------------------------------------------------------------
(* C25: the lifetime of the context *)

\* C25: the context a resolve call allocates is released before the call
\* returns, on every terminal path, so that after any sequence of resolve
\* calls no context is still allocated.
C25_ContextLifetime == (status = "running") => allocated = 0

\* Two calls have returned, a fragmentation and a merge, and both contexts are
\* still allocated
C25_Witness ==
    /\ Returned
    /\ Len(report) = 2
    /\ last.kind \in MergeKinds
    /\ report[1].collision_type \in 2..4
    /\ allocated = 2

---------------------------------------------------------------------------
(* C26: the index-order filter *)

\* A call whose first-named index is the smaller one returns 0 and changes
\* nothing
SmallerFirstIgnored ==
    \A p1, p2 \in 1..Len(particles) : (p1 < p2 /\ IsCall(p1, p2)) => Ignored

\* This step is the second report of a pair within a time step: the call
\* before named the same two bodies the other way round at this time
SecondOfBothOrders(p1, p2) ==
    /\ IsCall(p1, p2)
    /\ last.kind # "None"
    /\ last.t = t
    /\ last.p1 = p2 /\ last.p2 = p1
    /\ particles[p1].hash = last.pre[p1].hash
    /\ particles[p2].hash = last.pre[p2].hash

\* Neither body carried the current time when the first report arrived
UnstampedAtFirst ==
    /\ last.pre[last.p1].last_collision # last.t
    /\ last.pre[last.p2].last_collision # last.t

---------------------------------------------------------------------------
(* C27: the residual mass handed to add_fragments *)

\* The last call went from the classifier or from hit_and_run into
\* add_fragments
EnteredSynthesizer ==
    /\ last.passed
    /\ last.kind \in FragKinds
    /\ \E k \in 1..Len(last.ops) : last.ops[k] = "add_fragments"

\* m_target + m_projectile - Mlr - Mslr, from the context as it was passed
PassedResidual == RemainingOf(last.pre, last.params)

\* C27: whenever the classifier or the hit-and-run sub-resolver invokes
\* add_fragments, the residual m_target + m_projectile - Mlr - Mslr computed
\* from the Mlr actually passed is at least min_frag_mass, so no_frags >= 1
\* and none of the fatal checks of add_fragments fires.
C27_EnoughResidualMass ==
    EnteredSynthesizer =>
        /\ RLe(min_frag_mass, PassedResidual)
        /\ RFloor(RDiv(PassedResidual, min_frag_mass)) >= 1
        /\ status # "aborted"

\* An erosion entered add_fragments with less than min_frag_mass left after
\* Mlr had been raised, and the run was stopped
C27_Witness ==
    /\ EnteredSynthesizer
    /\ last.kind \in {"PartialErosion", "SuperCatastrophic"}
    /\ RLt(last.drawn.Mlr, min_frag_mass)
    /\ last.params.Mlr = min_frag_mass
    /\ RLe(min_frag_mass, RSub(PreMass, last.drawn.Mlr))
    /\ RLt(PassedResidual, min_frag_mass)
    /\ status = "aborted"

\* With bodies no lighter than min_frag_mass the residual is enough
ResidualEnoughForHeavyBodies ==
    (/\ EnteredSynthesizer
     /\ RLe(min_frag_mass, PreTarget.m)
     /\ RLe(min_frag_mass, PreProjectile.m)) =>
        RLe(min_frag_mass, PassedResidual)

---------------------------------------------------------------------------
(* C28: the bulk density rho1 *)

\* C28: for every value of G the host can configure, rho1 has been assigned
\* before it is read to compute Q0, so that it is a function of G alone and
\* does not depend on what the variable held before.
C28_DensityDefined ==
    last.kind = "rho1" =>
        /\ last.rho1_set
        /\ last.rho1 = rho1_select(last.G, 0).v

\* rho1 was read for the constant of shearing_sheet.c without having been
\* assigned, and holds what the stack held
C28_Witness ==
    /\ last.kind = "rho1"
    /\ last.G = "6.67428e-11"
    /\ ~last.rho1_set
    /\ last.rho1 = last.slot
    /\ last.slot # 0

\* For the four constants the builder knows, rho1 is assigned
DensityDefinedForKnownG ==
    (last.kind = "rho1" /\ last.G \in KnownG) =>
        /\ last.rho1_set
        /\ last.rho1 \in {1, 1000, 1684000}

---------------------------------------------------------------------------
(* C29: the target slot holds the largest remnant *)

\* The last call was a fragmentation selected by the resolver that returned
FragmentationReturned == JustReturned /\ last.passed /\ last.kind \in FragKinds

\* C29: after any fragmentation outcome, for every number of fragments, the
\* mass of the body in the target slot is greater than or equal to the mass
\* of every body created by that resolution.
C29_TargetHoldsLargest ==
    FragmentationReturned =>
        \A k \in 1..Len(Created) :
            RLe(Created[k].m, particles[last.params.target].m)

\* C29 for a single equal-mass fragment and for the second-largest remnant
C29_TargetHoldsLargestOfOne ==
    FragmentationReturned =>
        /\ Len(EqualFragments) = 1 =>
              RLe(EqualFragments[1].m, particles[last.params.target].m)
        /\ BigFrags = 1 => RLe(Created[1].m, particles[last.params.target].m)

\* Two or more equal fragments, each heavier than the body left in the
\* target slot
C29_Witness ==
    /\ FragmentationReturned
    /\ Len(EqualFragments) >= 2
    /\ particles[last.params.target].m = last.params.Mlr
    /\ RLt(particles[last.params.target].m, EqualFragments[1].m)

---------------------------------------------------------------------------
(* C30: the frame of a resolution *)

\* No stored body carries an identifier the fragment counter has yet to issue
NoIdentifierClash ==
    \A k \in 1..Len(particles) :
        particles[k].hash[1] = "FRAG" => particles[k].hash[2] <= tot_no_frags

\* This step is a resolve call that merges or fragments
ResolvingStep ==
    /\ last' # last
    /\ last'.passed
    /\ last'.kind \in MergeKinds \cup FragKinds

\* C30: provided no stored body carries an identifier the fragment counter
\* will issue, a resolve call that merges or fragments modifies only the body
\* in the target slot and appends new bodies at the end of the store; every
\* other pre-existing body, the projectile included, keeps all its fields,
\* and no call of the core removes a body.
C30_FrameOfResolution ==
    [][/\ (ResolvingStep /\ NoIdentifierClash) =>
            /\ Len(particles') >= Len(particles)
            /\ \A k \in 1..Len(particles) :
                   k # last'.params.target => particles'[k] = particles[k]
            /\ particles'[last'.params.target].hash
                 = particles[last'.params.target].hash
            /\ last'.kind \in MergeKinds => Len(particles') = Len(particles)
       /\ last' # last => Len(particles') >= Len(particles)]_vars

\* A fragmentation in a store of three or more bodies changed the target,
\* appended two or more bodies and left the projectile and a bystander as
\* they were
C30_Witness ==
    /\ JustReturned
    /\ last.kind \in FragKinds
    /\ Len(last.pre) >= 3
    /\ Len(particles) >= Len(last.pre) + 2
    /\ particles[last.params.target] # last.pre[last.params.target]
    /\ particles[last.params.projectile] = last.pre[last.params.projectile]
    /\ \E k \in 1..Len(last.pre) :
          /\ k \notin {last.params.target, last.params.projectile}
          /\ particles[k] = last.pre[k]

====
